---- MODULE Spec2Model ----
(***************************************************************************)
(* Model of the tensor facade of hub/core/tensor.py: create_tensor,        *)
(* add_samples_to_tensor and read_samples_from_tensor working on one       *)
(* tensor key of one storage provider.                                     *)
(*                                                                         *)
(* The facade is translated from the source.  Its collaborators            *)
(* (TensorMeta, IndexMeta, Index, write_bytes, sample_from_index_entry,    *)
(* row_wise_to_bytes, normalize_and_batchify_array_shape) are imported by  *)
(* the source but their code is not part of it; they are modelled from     *)
(* the written specification (sections 4.1-4.4).                           *)
(*                                                                         *)
(* Three specifications: Spec takes every call as one step; SpecFaults     *)
(* adds appends that the store interrupts and restarts of the process;     *)
(* SpecConc takes the calls of one writer and of readers store operation   *)
(* by store operation.                                                     *)
(***************************************************************************)
EXTENDS Integers, Sequences, FiniteSets, TLC

(***************************************************************************)
(* Bounds of the model.                                                    *)
(***************************************************************************)
\* samples one behaviour appends in total
MaxSamples == 3
\* samples in one batch
MaxBatch == 2
\* bytes per chunk (tensor_meta.chunk_size)
ChunkSize == 3

(***************************************************************************)
(* Arrays: dtype name, shape, flat row-major element values.               *)
(***************************************************************************)
None == "None"
Dtypes == {"uint8", "int16"}

RECURSIVE Prod(_)
Prod(shape) == IF shape = <<>> THEN 1 ELSE Head(shape) * Prod(Tail(shape))

Min2(a, b) == IF a <= b THEN a ELSE b
Max2(a, b) == IF a >= b THEN a ELSE b

\* `0 in shape`
ZeroIn(shape) == \E a \in DOMAIN shape : shape[a] = 0

\* per-sample shapes the inputs are drawn from: rank 0, rank 1 and rank 2
SampleShapes == {<<>>, <<0>>, <<1>>, <<2>>, <<1, 2>>, <<2, 1>>}

Itemsize(dtype) == IF dtype = "int16" THEN 2 ELSE 1

\* element values the inputs are drawn from; the int16 values have two
\* different non-zero bytes
Palette(dtype) == IF dtype = "int16" THEN <<258, 515, 772>> ELSE <<1, 2, 3>>

Fill(dtype, seed, count) ==
    [i \in 1..count |-> Palette(dtype)[((seed + i - 1) % 3) + 1]]

\* a batch of n samples of one shape; sample j is filled from seed + j
RECURSIVE BatchData(_, _, _, _)
BatchData(dtype, sshape, seed, n) ==
    IF n = 0 THEN <<>>
    ELSE BatchData(dtype, sshape, seed, n - 1)
         \o Fill(dtype, seed + n - 1, Prod(sshape))

MkArray(dtype, shape, data) == [dtype |-> dtype, shape |-> shape, data |-> data]

\* numpy's array[i] along the first axis
Subarray(array, i) ==
    LET sz == Prod(Tail(array.shape))
    IN  MkArray(array.dtype, Tail(array.shape),
                SubSeq(array.data, i * sz + 1, (i + 1) * sz))

(***************************************************************************)
(* Serializer (section 4.1): row-major little-endian bytes.                *)
(***************************************************************************)
RECURSIVE row_wise_to_bytes_data(_, _)
row_wise_to_bytes_data(dtype, data) ==
    IF data = <<>> THEN <<>>
    ELSE (IF Itemsize(dtype) = 2
          THEN <<Head(data) % 256, Head(data) \div 256>>
          ELSE <<Head(data) % 256>>)
         \o row_wise_to_bytes_data(dtype, Tail(data))

row_wise_to_bytes(sample) == row_wise_to_bytes_data(sample.dtype, sample.data)

RECURSIVE bytes_to_data(_, _)
bytes_to_data(dtype, b) ==
    IF b = <<>> THEN <<>>
    ELSE IF Itemsize(dtype) = 2
         THEN <<b[1] + 256 * b[2]>> \o bytes_to_data(dtype, SubSeq(b, 3, Len(b)))
         ELSE <<b[1]>> \o bytes_to_data(dtype, Tail(b))

(***************************************************************************)
(* ChunkWriter (section 4.2).  Chunk identifiers are 1, 2, ... in          *)
(* allocation order and index the chunk store; cursor.id = 0 before the    *)
(* first allocation.                                                       *)
(***************************************************************************)
NoCursor == [id |-> 0, used |-> 0]

\* one store write: the next bytes of b go into the open chunk, or into a
\* newly allocated one when there is no open chunk with room
write_piece(b, chunk_size, chunks, cursor) ==
    LET cur   == IF cursor.id = 0 \/ cursor.used >= chunk_size
                 THEN [id |-> Len(chunks) + 1, used |-> 0]
                 ELSE cursor
        chs   == IF cur.id > Len(chunks) THEN Append(chunks, <<>>) ELSE chunks
        n     == Min2(chunk_size - cur.used, Len(b))
    IN  [chunks |-> [chs EXCEPT ![cur.id] = @ \o SubSeq(b, 1, n)],
         cursor |-> [id |-> cur.id, used |-> cur.used + n],
         ref    |-> [id |-> cur.id, start |-> cur.used, end |-> cur.used + n],
         rest   |-> SubSeq(b, n + 1, Len(b))]

RECURSIVE write_bytes(_, _, _, _, _)
write_bytes(b, chunk_size, chunks, cursor, refs) ==
    IF b = <<>>
    THEN [chunks |-> chunks, cursor |-> cursor, refs |-> refs]
    ELSE LET p == write_piece(b, chunk_size, chunks, cursor)
         IN  write_bytes(p.rest, chunk_size, p.chunks, p.cursor,
                         Append(refs, p.ref))

(***************************************************************************)
(* ChunkReader (section 4.3).                                              *)
(***************************************************************************)
RECURSIVE read_refs(_, _)
read_refs(refs, chunks) ==
    IF refs = <<>> THEN <<>>
    ELSE SubSeq(chunks[Head(refs).id], Head(refs).start + 1, Head(refs).end)
         \o read_refs(Tail(refs), chunks)

\* the bytes fit the shape and dtype they are decoded with
Decodable(index_entry, dtype, chunks) ==
    Len(read_refs(index_entry.chunk_refs, chunks))
        = Prod(index_entry.shape) * Itemsize(dtype)

sample_from_index_entry(index_entry, dtype, chunks) ==
    MkArray(dtype, index_entry.shape,
            bytes_to_data(dtype, read_refs(index_entry.chunk_refs, chunks)))

(***************************************************************************)
(* TensorMeta (section 3).  rank is the length of the shape envelope.      *)
(***************************************************************************)
FreshMeta ==
    [dtype |-> None, min_shape |-> <<>>, max_shape |-> <<>>,
     length |-> 0, chunk_size |-> ChunkSize]

update_tensor_meta_with_array(tensor_meta, array) ==
    [tensor_meta EXCEPT !.dtype = array.dtype,
                        !.min_shape = Tail(array.shape),
                        !.max_shape = Tail(array.shape)]

update_shape_interval(tensor_meta, shape) ==
    [tensor_meta EXCEPT
        !.min_shape = [a \in DOMAIN @ |-> Min2(@[a], shape[a])],
        !.max_shape = [a \in DOMAIN @ |-> Max2(@[a], shape[a])]]

\* prepends a unit batch axis unless the array is batched
normalize_and_batchify_array_shape(array, batched) ==
    IF batched THEN array
    ELSE MkArray(array.dtype, <<1>> \o array.shape, array.data)

(***************************************************************************)
(* Index (section 4.4, read): a selection is a single offset, a contiguous *)
(* range lo..hi-1 or an explicit ordered list of offsets.                  *)
(***************************************************************************)
NoSel == [kind |-> "none", lo |-> 0, hi |-> 0, list |-> <<>>]
OffsetSel(o) == [kind |-> "offset", lo |-> o, hi |-> o + 1, list |-> <<>>]
RangeSel(lo, hi) == [kind |-> "range", lo |-> lo, hi |-> hi, list |-> <<>>]
ListSel(l) == [kind |-> "list", lo |-> 0, hi |-> 0, list |-> l]

\* index.values[0].indices(length): the offsets in resolution order; a range
\* stops at the end of the entries
indices(sel, length) ==
    IF sel.kind = "list" THEN sel.list
    ELSE IF sel.kind = "offset" THEN <<sel.lo>>
    ELSE LET hi == Min2(sel.hi, length)
         IN  [j \in 1..(IF hi > sel.lo THEN hi - sel.lo ELSE 0) |-> sel.lo + j - 1]

\* the number of elements the selection denotes
Denoted(sel) ==
    IF sel.kind = "list" THEN Len(sel.list)
    ELSE IF sel.kind = "offset" THEN 1
    ELSE sel.hi - sel.lo

\* index.values[0].subscriptable(): the selection does not denote exactly
\* one element
subscriptable(sel) == Denoted(sel) # 1

(***************************************************************************)
(* Results of the operations.                                              *)
(***************************************************************************)
NoArray == MkArray(None, <<>>, <<>>)

Err(e) ==
    [err |-> e, expDtype |-> None, actDtype |-> None,
     expRank |-> -1, actRank |-> -1, sel |-> NoSel]
NoErr == Err("none")

TensorAlreadyExistsError == Err("AlreadyExists")
TensorDoesNotExistError == Err("NotFound")
TensorMetaMismatchError(expected, actual) ==
    [Err("MetaMismatch") EXCEPT !.expDtype = expected, !.actDtype = actual]
TensorInvalidSampleShapeError(expected, actual) ==
    [Err("InvalidSampleShape") EXCEPT !.expRank = expected, !.actRank = actual]
DynamicTensorNumpyError(sel) == [Err("RaggedWithoutList") EXCEPT !.sel = sel]
NotImplementedError == Err("UnsupportedEmptySample")
IndexError == Err("IndexError")
DecodeError == Err("StoreError")

(***************************************************************************)
(* The tensor at the key: which records are in storage, and their content. *)
(***************************************************************************)
tensor_exists_meta_only(ex) == ex.meta

tensor_exists_either(ex) == ex.meta \/ ex.index

tensor_exists(ex) == ex.meta /\ ex.index

MkTensor(meta, entries, chunks, cursor) ==
    [meta |-> meta, entries |-> entries, chunks |-> chunks, cursor |-> cursor]

NoTensor == MkTensor(FreshMeta, <<>>, <<>>, NoCursor)

(***************************************************************************)
(* add_samples_to_tensor                                                   *)
(***************************************************************************)
check_array_and_tensor_are_compatible(tensor_meta, array) ==
    IF tensor_meta.dtype # array.dtype
    THEN TensorMetaMismatchError(tensor_meta.dtype, array.dtype)
    ELSE IF Len(tensor_meta.min_shape) # Len(Tail(array.shape))
    THEN TensorInvalidSampleShapeError(Len(tensor_meta.min_shape),
                                       Len(Tail(array.shape)))
    ELSE NoErr

\* sample_step with the test for a zero in the shape inverted
sample_step_inverted_test(t, sample) ==
    LET written ==
            IF ~ZeroIn(sample.shape) THEN t
            ELSE LET w == write_bytes(row_wise_to_bytes(sample),
                                      t.meta.chunk_size, t.chunks, t.cursor, <<>>)
                 IN  [t EXCEPT !.chunks = w.chunks, !.cursor = w.cursor,
                               !.entries = Append(@, [chunk_refs |-> w.refs,
                                                      shape |-> sample.shape])]
    IN  [written EXCEPT !.meta = update_shape_interval(@, sample.shape)]

\* sample_step with update_shape_interval inside the branch that writes
sample_step_envelope_in_branch(t, sample) ==
    IF ZeroIn(sample.shape) THEN t
    ELSE LET w == write_bytes(row_wise_to_bytes(sample),
                              t.meta.chunk_size, t.chunks, t.cursor, <<>>)
         IN  [t EXCEPT !.chunks = w.chunks, !.cursor = w.cursor,
                       !.entries = Append(@, [chunk_refs |-> w.refs,
                                              shape |-> sample.shape]),
                       !.meta = update_shape_interval(@, sample.shape)]

\* the body of the loop over the samples of the batch.  For a sample with a
\* zero in its shape the code builds an index entry in a local variable and
\* does nothing with it: no entry reaches index_meta.
sample_step_entry_in_front(t, sample) ==
    LET written ==
            IF ZeroIn(sample.shape) THEN t
            ELSE LET w == write_bytes(row_wise_to_bytes(sample),
                                      t.meta.chunk_size, t.chunks, t.cursor, <<>>)
                 IN  [t EXCEPT !.chunks = w.chunks, !.cursor = w.cursor,
                               !.entries = <<[chunk_refs |-> w.refs,
                                              shape |-> sample.shape]>> \o @]
    IN  [written EXCEPT !.meta = update_shape_interval(@, sample.shape)]

sample_step_fresh_cursor(t, sample) ==
    LET written ==
            IF ZeroIn(sample.shape) THEN t
            ELSE LET w == write_bytes(row_wise_to_bytes(sample),
                                      t.meta.chunk_size, t.chunks, NoCursor, <<>>)
                 IN  [t EXCEPT !.chunks = w.chunks, !.cursor = w.cursor,
                               !.entries = Append(@, [chunk_refs |-> w.refs,
                                                      shape |-> sample.shape])]
    IN  [written EXCEPT !.meta = update_shape_interval(@, sample.shape)]

sample_step_used_reset(t, sample) ==
    LET written ==
            IF ZeroIn(sample.shape) THEN t
            ELSE LET w == write_bytes(row_wise_to_bytes(sample),
                                      t.meta.chunk_size, t.chunks,
                                      [t.cursor EXCEPT !.used = 0], <<>>)
                 IN  [t EXCEPT !.chunks = w.chunks, !.cursor = w.cursor,
                               !.entries = Append(@, [chunk_refs |-> w.refs,
                                                      shape |-> sample.shape])]
    IN  [written EXCEPT !.meta = update_shape_interval(@, sample.shape)]

sample_step(t, sample) ==
    LET written ==
            IF ZeroIn(sample.shape) THEN t
            ELSE LET w == write_bytes(row_wise_to_bytes(sample),
                                      t.meta.chunk_size, t.chunks, t.cursor, <<>>)
                 IN  [t EXCEPT !.chunks = w.chunks, !.cursor = w.cursor,
                               !.entries = Append(@, [chunk_refs |-> w.refs,
                                                      shape |-> sample.shape])]
    IN  [written EXCEPT !.meta = update_shape_interval(@, sample.shape)]

RECURSIVE sample_loop(_, _, _)
sample_loop(t, array, i) ==
    IF i >= array.shape[1] THEN t
    ELSE sample_loop(sample_step(t, Subarray(array, i)), array, i + 1)

\* first write, as the code decides it
needs_meta_update(tensor_meta) == Len(tensor_meta.max_shape) <= 0

add_samples_to_tensor_counts_first(t, ex, input, batched) ==
    IF ~tensor_exists(ex) THEN [err |-> TensorDoesNotExistError, t |-> t]
    ELSE LET array == normalize_and_batchify_array_shape(input, batched)
             m1    == IF needs_meta_update(t.meta)
                      THEN update_tensor_meta_with_array(t.meta, array)
                      ELSE t.meta
             m2    == [m1 EXCEPT !.length = @ + array.shape[1]]
             chk   == check_array_and_tensor_are_compatible(m2, array)
             t1    == [t EXCEPT !.meta = m2]
         IN  IF chk.err # "none" THEN [err |-> chk, t |-> t1]
             ELSE [err |-> NoErr, t |-> sample_loop(t1, array, 0)]

add_samples_to_tensor_cursor_not_loaded(t, ex, input, batched) ==
    IF ~tensor_exists(ex) THEN [err |-> TensorDoesNotExistError, t |-> t]
    ELSE LET array == normalize_and_batchify_array_shape(input, batched)
             m1    == IF needs_meta_update(t.meta)
                      THEN update_tensor_meta_with_array(t.meta, array)
                      ELSE t.meta
             chk   == check_array_and_tensor_are_compatible(m1, array)
             t1    == [t EXCEPT !.meta = m1]
             t2    == sample_loop([t1 EXCEPT !.cursor = NoCursor], array, 0)
         IN  IF chk.err # "none" THEN [err |-> chk, t |-> t1]
             ELSE [err |-> NoErr,
                   t |-> [t2 EXCEPT !.meta.length = @ + array.shape[1]]]

add_samples_to_tensor(t, ex, input, batched) ==
    IF ~tensor_exists(ex) THEN [err |-> TensorDoesNotExistError, t |-> t]
    ELSE LET array == normalize_and_batchify_array_shape(input, batched)
             m1    == IF needs_meta_update(t.meta)
                      THEN update_tensor_meta_with_array(t.meta, array)
                      ELSE t.meta
             chk   == check_array_and_tensor_are_compatible(m1, array)
             t1    == [t EXCEPT !.meta = m1]
             t2    == sample_loop(t1, array, 0)
         IN  IF chk.err # "none" THEN [err |-> chk, t |-> t1]
             ELSE [err |-> NoErr,
                   t |-> [t2 EXCEPT !.meta.length = @ + array.shape[1]]]

(***************************************************************************)
(* read_samples_from_tensor                                                *)
(***************************************************************************)
\* ragged_check with the aslist flag inverted
ragged_check_inverted_flag(aslist, shape, last_shape) ==
    aslist /\ shape # last_shape

\* `not aslist and shape != last_shape`
ragged_check(aslist, shape, last_shape) == ~aslist /\ shape # last_shape

RECURSIVE read_loop(_, _, _, _, _, _)
read_loop(index_entries, i, samples, t, sel, aslist) ==
    IF i > Len(index_entries) THEN [err |-> NoErr, samples |-> samples]
    ELSE LET index_entry == index_entries[i]
             shape       == index_entry.shape
             \* index_entries[i - 1]: for the first entry, the last one
             last_shape  == index_entries[IF i = 1 THEN Len(index_entries)
                                          ELSE i - 1].shape
         IN  IF ragged_check(aslist, shape, last_shape)
             THEN [err |-> DynamicTensorNumpyError(sel), samples |-> samples]
             ELSE IF ZeroIn(shape)
             THEN [err |-> NotImplementedError, samples |-> samples]
             ELSE IF ~Decodable(index_entry, t.meta.dtype, t.chunks)
             THEN [err |-> DecodeError, samples |-> samples]
             ELSE read_loop(index_entries, i + 1,
                            Append(samples,
                                   sample_from_index_entry(index_entry,
                                                           t.meta.dtype, t.chunks)),
                            t, sel, aslist)

RECURSIVE Concat(_)
Concat(arrays) ==
    IF arrays = <<>> THEN <<>> ELSE Head(arrays).data \o Concat(Tail(arrays))

\* np.array(samples): one dense array with a leading batch axis
np_array(samples) ==
    IF samples = <<>> THEN MkArray("float64", <<0>>, <<>>)
    ELSE MkArray(samples[1].dtype, <<Len(samples)>> \o samples[1].shape,
                 Concat(samples))

Value(kind, arr, list) == [err |-> NoErr, kind |-> kind, arr |-> arr, list |-> list]
Failure(e) == [err |-> e, kind |-> "none", arr |-> NoArray, list |-> <<>>]

\* aslist_result with the two branches exchanged
aslist_result_exchanged(sel, samples) ==
    IF ~subscriptable(sel) THEN Value("list", NoArray, samples)
    ELSE IF samples = <<>> THEN Failure(IndexError)
    ELSE Value("array", samples[1], <<>>)

\* the aslist branch: the list when the selection is subscriptable, else
\* its first element
aslist_result(sel, samples) ==
    IF subscriptable(sel) THEN Value("list", NoArray, samples)
    ELSE IF samples = <<>> THEN Failure(IndexError)
    ELSE Value("array", samples[1], <<>>)

\* index.apply(array): the batch axis is dropped under the same condition
index_apply(sel, array) ==
    IF subscriptable(sel) THEN Value("array", array, <<>>)
    ELSE IF array.shape[1] = 0 THEN Failure(IndexError)
    ELSE Value("array", Subarray(array, 0), <<>>)

read_samples_from_tensor(t, ex, sel, aslist) ==
    IF ~tensor_exists(ex) THEN Failure(TensorDoesNotExistError)
    ELSE LET offsets == indices(sel, Len(t.entries))
         IN  IF \E j \in DOMAIN offsets : offsets[j] >= Len(t.entries)
             THEN Failure(IndexError)
             ELSE LET index_entries ==
                          [j \in DOMAIN offsets |-> t.entries[offsets[j] + 1]]
                      r == read_loop(index_entries, 1, <<>>, t, sel, aslist)
                  IN  IF r.err.err # "none" THEN Failure(r.err)
                      ELSE IF aslist THEN aslist_result(sel, r.samples)
                      ELSE index_apply(sel, np_array(r.samples))

(***************************************************************************)
(* State.                                                                  *)
(*   exists      which of the two records are in storage at the key        *)
(*   tensor      tensor meta, index entries, chunk store, open-chunk cursor*)
(*   appended    history: the samples of the successful appends, in order  *)
(*   established history: dtype and rank after the first successful append *)
(*   last        the last call: its arguments, its outcome and the tensor  *)
(*               before it                                                 *)
(***************************************************************************)
VARIABLES exists, tensor, appended, established, last, writer, readers

vars == <<exists, tensor, appended, established, last, writer, readers>>

NotEstablished == [set |-> FALSE, dtype |-> None, rank |-> -1]

\* `pre` is the tensor the call has found, `at` the sample at which the store
\* has failed the call (-1: not failed by the store), `resumed` whether the
\* call is the first one after a restart.
Call(op, input, batched, sel, aslist, res, pre) ==
    [op |-> op, input |-> input, batched |-> batched, sel |-> sel,
     aslist |-> aslist, err |-> res.err, kind |-> res.kind, arr |-> res.arr,
     list |-> res.list, pre |-> pre, at |-> -1, resumed |-> FALSE]

NoResult == Value("none", NoArray, <<>>)

\* The calls of a writer and of readers, when they are taken store operation
\* by store operation: where each one is in its call, and what it holds.
NumReaders == 1      \* readers beside the writer

IdleWriter == [pc |-> "idle", array |-> NoArray, i |-> 0, b |-> <<>>, refs |-> <<>>]

IdleReader ==
    [pc |-> "idle", sel |-> NoSel, aslist |-> FALSE, entries |-> <<>>,
     offsets |-> <<>>, dtype |-> None, i |-> 0, r |-> 0, buf |-> <<>>,
     samples |-> <<>>, result |-> NoResult]

\* The key starts without a tensor: with neither record, or with only one of
\* the two (a create interrupted between lines 53 and 54 leaves the meta
\* record alone; tensor_exists tests the two keys separately).
Init ==
    /\ exists \in {[meta |-> FALSE, index |-> FALSE],
                   [meta |-> TRUE, index |-> FALSE],
                   [meta |-> FALSE, index |-> TRUE]}
    /\ tensor = NoTensor
    /\ appended = <<>>
    /\ established = NotEstablished
    /\ last = Call("init", NoArray, FALSE, NoSel, FALSE, NoResult, NoTensor)
    /\ writer = IdleWriter
    /\ readers = [r \in 1..NumReaders |-> IdleReader]

\* A call that fails before its first store write, and every read, leaves
\* exists, tensor, appended and established as they were, and no call depends
\* on `last`: what follows such a call is what follows the state before it.
\* The calls are therefore taken from the states a successful create or
\* append has left (and from Init) and from the states a restart has left,
\* which reaches the same states as taking them everywhere; what follows an
\* append interrupted by the store is taken after the restart that follows
\* it, which leaves the store as the interrupted append has left it.
Settled == last.op \in {"init", "create", "append", "restart"} /\ last.err.err = "none"

\* create_tensor(key, storage)
create_tensor ==
    /\ Settled
    /\ IF tensor_exists(exists)
       THEN /\ last' = Call("create", NoArray, FALSE, NoSel, FALSE,
                            Failure(TensorAlreadyExistsError), tensor)
            /\ UNCHANGED <<exists, tensor, appended, established>>
       ELSE /\ exists' = [meta |-> TRUE, index |-> TRUE]
            /\ tensor' = [tensor EXCEPT !.meta = FreshMeta, !.entries = <<>>]
            /\ appended' = <<>>
            /\ established' = NotEstablished
            /\ last' = Call("create", NoArray, FALSE, NoSel, FALSE, NoResult, tensor)
    /\ UNCHANGED <<writer, readers>>

\* the arrays a call passes: n samples of shape sshape, with the batch axis
\* when batched
InputArray(dtype, sshape, n, seed, batched) ==
    MkArray(dtype, IF batched THEN <<n>> \o sshape ELSE sshape,
            BatchData(dtype, sshape, seed, n))

Samples(array) == [j \in 1..array.shape[1] |-> Subarray(array, j - 1)]

\* the index entries that appends interrupted by the store have left behind
\* (none where the store does not fail); they count as samples of MaxSamples
Stranded ==
    Len(tensor.entries) - Len(SelectSeq(appended, LAMBDA s : ~ZeroIn(s.shape)))

\* add_samples_to_tensor(array, key, storage, batched)
\* The values of a sample are filled from the number of samples appended
\* before it, so that samples at neighbouring positions differ.
AddSamples(dtype, sshape, n, batched) ==
    LET input == InputArray(dtype, sshape, n, Len(appended), batched)
        r     == add_samples_to_tensor(tensor, exists, input, batched)
        ok    == r.err.err = "none"
    IN  /\ Settled
        /\ batched \/ n = 1
        /\ Len(appended) + Stranded + n <= MaxSamples
        /\ tensor' = r.t
        /\ appended' = IF ok
                       THEN appended \o Samples(
                                normalize_and_batchify_array_shape(input, batched))
                       ELSE appended
        /\ established' = IF ok /\ ~established.set
                          THEN [set |-> TRUE, dtype |-> r.t.meta.dtype,
                                rank |-> Len(r.t.meta.min_shape)]
                          ELSE established
        /\ last' = [Call("append", input, batched, NoSel, FALSE,
                         IF ok THEN NoResult ELSE Failure(r.err), tensor)
                       EXCEPT !.resumed = (last.op = "restart")]
        /\ UNCHANGED <<exists, writer, readers>>

Offsets == 0..(MaxSamples - 1)

Selections ==
    {OffsetSel(o) : o \in Offsets}
    \cup {RangeSel(lo, hi) : lo \in Offsets, hi \in 0..MaxSamples}
    \cup {ListSel(<<o>>) : o \in Offsets}
    \cup {ListSel(<<o, p>>) : o \in Offsets, p \in Offsets}

\* read_samples_from_tensor(key, storage, index, aslist)
ReadSamples(sel, aslist) ==
    /\ Settled
    /\ last' = Call("read", NoArray, FALSE, sel, aslist,
                    read_samples_from_tensor(tensor, exists, sel, aslist), tensor)
    /\ UNCHANGED <<exists, tensor, appended, established, writer, readers>>

Next ==
    \/ create_tensor
    \/ \E dtype \in Dtypes, sshape \in SampleShapes, n \in 1..MaxBatch,
          batched \in BOOLEAN :
          AddSamples(dtype, sshape, n, batched)
    \/ \E sel \in Selections, aslist \in BOOLEAN : ReadSamples(sel, aslist)

Spec == Init /\ [][Next]_vars

(***************************************************************************)
(* Store failures and restarts.                                            *)
(*                                                                         *)
(* The byte store may fail a call (section 7: StoreError passes through,   *)
(* nothing is retried or undone).  The failure modelled is the one at the  *)
(* first store write of sample j of the batch (j counted from 0): the      *)
(* samples before j have gone through lines 103-120, line 122 is not       *)
(* reached.  A restart drops what the process holds in memory; the records *)
(* are loaded from the store again by the next call (lines 86-89, 149-150).*)
(***************************************************************************)
StoreError == Err("StoreError")

\* the first j samples of a batch
Prefix(array, j) ==
    MkArray(array.dtype, <<j>> \o Tail(array.shape),
            SubSeq(array.data, 1, j * Prod(Tail(array.shape))))

add_samples_interrupted(t, input, batched, j) ==
    LET array == normalize_and_batchify_array_shape(input, batched)
        m1    == IF needs_meta_update(t.meta)
                 THEN update_tensor_meta_with_array(t.meta, array)
                 ELSE t.meta
    IN  sample_loop([t EXCEPT !.meta = m1], Prefix(array, j), 0)

AddSamplesStoreFailure(dtype, sshape, n, batched, j) ==
    LET input == InputArray(dtype, sshape, n, Len(appended), batched)
        r     == add_samples_to_tensor(tensor, exists, input, batched)
    IN  /\ Settled
        /\ batched \/ n = 1
        /\ j < n
        /\ Len(appended) + Stranded + n <= MaxSamples
        /\ r.err.err = "none"
        /\ ~ZeroIn(sshape)
        /\ tensor' = add_samples_interrupted(tensor, input, batched, j)
        /\ last' = [Call("append", input, batched, NoSel, FALSE,
                         Failure(StoreError), tensor) EXCEPT !.at = j]
        /\ UNCHANGED <<exists, appended, established, writer, readers>>

Restart ==
    /\ last.op = "append" /\ last.err.err \in {"none", "StoreError"}
    /\ last' = Call("restart", NoArray, FALSE, NoSel, FALSE, NoResult, tensor)
    /\ UNCHANGED <<exists, tensor, appended, established, writer, readers>>

\* Reads write nothing and are left out of this specification.
NextFaults ==
    \/ create_tensor
    \/ \E dtype \in Dtypes, sshape \in SampleShapes, n \in 1..MaxBatch,
          batched \in BOOLEAN :
          AddSamples(dtype, sshape, n, batched)
    \/ \E dtype \in Dtypes, sshape \in SampleShapes, n \in 1..MaxBatch,
          batched \in BOOLEAN, j \in 0..(MaxBatch - 1) :
          AddSamplesStoreFailure(dtype, sshape, n, batched, j)
    \/ Restart

SpecFaults == Init /\ [][NextFaults]_vars

(***************************************************************************)
(* One writer and readers, store operation by store operation (section 5). *)
(*                                                                         *)
(* A step is one read or one write of the store together with the          *)
(* computation that follows it up to the next one.  The writer's call goes *)
(* through lines 91-122 with write_bytes taken chunk write by chunk write, *)
(* the index entry stored after the chunks of its sample (section 4.4).    *)
(* A reader's call loads the index (line 149), then the meta record (line  *)
(* 150), then fetches the byte ranges of the selected entries one by one   *)
(* (line 170).  `appended` lists the samples of the calls the writer has   *)
(* begun, in order; calls that fail before their first write are left out. *)
(***************************************************************************)
\* A call of a reader that has returned or raised has changed nothing but
\* what the reader holds: what follows it is what follows the state before
\* it, and the steps are taken from the states where no reader holds a
\* result.
NoneDone == \A r \in 1..NumReaders : readers[r].pc # "done"

\* the writer, about to handle sample i of its batch (lines 102-110)
writer_at(array, i) ==
    IF i >= array.shape[1]
    THEN [pc |-> "length", array |-> array, i |-> i, b |-> <<>>, refs |-> <<>>]
    ELSE IF ZeroIn(Subarray(array, i).shape)
    THEN [pc |-> "shape", array |-> array, i |-> i, b |-> <<>>, refs |-> <<>>]
    ELSE [pc |-> "chunk", array |-> array, i |-> i,
          b |-> row_wise_to_bytes(Subarray(array, i)), refs |-> <<>>]

\* lines 83-96: the records are loaded, a fresh meta is initialised and stored
WriterStart(dtype, sshape, n, batched) ==
    LET input == InputArray(dtype, sshape, n, Len(appended), batched)
        array == normalize_and_batchify_array_shape(input, batched)
        m1    == IF needs_meta_update(tensor.meta)
                 THEN update_tensor_meta_with_array(tensor.meta, array)
                 ELSE tensor.meta
    IN  /\ NoneDone
        /\ writer.pc = "idle"
        /\ batched \/ n = 1
        /\ Len(appended) + n <= MaxSamples
        /\ tensor_exists(exists)
        /\ check_array_and_tensor_are_compatible(m1, array).err = "none"
        /\ tensor' = [tensor EXCEPT !.meta = m1]
        /\ writer' = writer_at(array, 0)
        /\ appended' = appended \o Samples(array)
        /\ UNCHANGED <<exists, established, last, readers>>

\* one chunk write of write_bytes (lines 111-118)
WriteChunk ==
    /\ NoneDone
    /\ writer.pc = "chunk"
    /\ LET p == write_piece(writer.b, tensor.meta.chunk_size, tensor.chunks,
                            tensor.cursor)
       IN  /\ tensor' = [tensor EXCEPT !.chunks = p.chunks, !.cursor = p.cursor]
           /\ writer' = [writer EXCEPT !.b = p.rest,
                                       !.refs = Append(@, p.ref),
                                       !.pc = IF p.rest = <<>> THEN "entry"
                                              ELSE "chunk"]
    /\ UNCHANGED <<exists, appended, established, last, readers>>

\* the index entry of the sample, stored by write_bytes after its chunks
WriteEntry ==
    /\ NoneDone
    /\ writer.pc = "entry"
    /\ tensor' = [tensor EXCEPT !.entries =
                     Append(@, [chunk_refs |-> writer.refs,
                                shape |-> Subarray(writer.array, writer.i).shape])]
    /\ writer' = [writer EXCEPT !.pc = "shape"]
    /\ UNCHANGED <<exists, appended, established, last, readers>>

\* line 120
WriteShape ==
    /\ NoneDone
    /\ writer.pc = "shape"
    /\ tensor' = [tensor EXCEPT !.meta =
                     update_shape_interval(@, Subarray(writer.array, writer.i).shape)]
    /\ writer' = writer_at(writer.array, writer.i + 1)
    /\ UNCHANGED <<exists, appended, established, last, readers>>

\* line 122
WriteLength ==
    /\ NoneDone
    /\ writer.pc = "length"
    /\ tensor' = [tensor EXCEPT !.meta.length = @ + writer.array.shape[1]]
    /\ writer' = IdleWriter
    /\ established' = IF ~established.set
                      THEN [set |-> TRUE, dtype |-> tensor.meta.dtype,
                            rank |-> Len(tensor.meta.min_shape)]
                      ELSE established
    /\ UNCHANGED <<exists, appended, last, readers>>

\* a reader that has returned or raised
reader_done(rd, res) ==
    [IdleReader EXCEPT !.pc = "done", !.sel = rd.sel, !.aslist = rd.aslist,
                       !.offsets = rd.offsets, !.result = res]

\* the reader, about to handle selected entry i (lines 158-168), or past the
\* last one (lines 173-179)
reader_at(rd, i) ==
    IF i > Len(rd.entries)
    THEN reader_done(rd, IF rd.aslist THEN aslist_result(rd.sel, rd.samples)
                         ELSE index_apply(rd.sel, np_array(rd.samples)))
    ELSE LET shape      == rd.entries[i].shape
             last_shape == rd.entries[IF i = 1 THEN Len(rd.entries)
                                      ELSE i - 1].shape
         IN  IF ragged_check(rd.aslist, shape, last_shape)
             THEN reader_done(rd, Failure(DynamicTensorNumpyError(rd.sel)))
             ELSE IF ZeroIn(shape)
             THEN reader_done(rd, Failure(NotImplementedError))
             ELSE [rd EXCEPT !.pc = "fetch", !.i = i, !.r = 1, !.buf = <<>>]

\* line 149: the index as it is stored now
ReadStart(r, sel, aslist) ==
    /\ NoneDone
    /\ readers[r].pc = "idle"
    /\ tensor_exists(exists)
    /\ readers' = [readers EXCEPT ![r] =
                      [IdleReader EXCEPT !.pc = "meta", !.sel = sel,
                                         !.aslist = aslist,
                                         !.entries = tensor.entries]]
    /\ UNCHANGED <<exists, tensor, appended, established, last, writer>>

\* line 150: the meta record as it is stored now; lines 152-154
ReadMeta(r) ==
    LET rd      == readers[r]
        offsets == indices(rd.sel, Len(rd.entries))
        loaded  == [rd EXCEPT !.dtype = tensor.meta.dtype, !.offsets = offsets]
    IN  /\ NoneDone
        /\ rd.pc = "meta"
        /\ readers' = [readers EXCEPT ![r] =
              IF \E j \in DOMAIN offsets : offsets[j] >= Len(rd.entries)
              THEN reader_done(loaded, Failure(IndexError))
              ELSE reader_at([loaded EXCEPT !.entries =
                                 [j \in DOMAIN offsets |->
                                     rd.entries[offsets[j] + 1]]], 1)]
        /\ UNCHANGED <<exists, tensor, appended, established, last, writer>>

\* line 170: one byte range of the entry is fetched from the chunk as it is
\* stored now; after the last one the sample is decoded
ReadFetch(r) ==
    LET rd    == readers[r]
        entry == rd.entries[rd.i]
        ref   == entry.chunk_refs[rd.r]
        buf   == rd.buf \o SubSeq(tensor.chunks[ref.id], ref.start + 1, ref.end)
    IN  /\ NoneDone
        /\ rd.pc = "fetch"
        /\ readers' = [readers EXCEPT ![r] =
              IF ref.id > Len(tensor.chunks)
              THEN reader_done(rd, Failure(DecodeError))
              ELSE IF ref.end > Len(tensor.chunks[ref.id])
              THEN reader_done(rd, Failure(DecodeError))
              ELSE IF rd.r < Len(entry.chunk_refs)
              THEN [rd EXCEPT !.r = @ + 1, !.buf = buf]
              ELSE IF Len(buf) # Prod(entry.shape) * Itemsize(rd.dtype)
              THEN reader_done(rd, Failure(DecodeError))
              ELSE reader_at([rd EXCEPT !.buf = <<>>,
                                 !.samples = Append(@,
                                     MkArray(rd.dtype, entry.shape,
                                             bytes_to_data(rd.dtype, buf)))],
                             rd.i + 1)]
        /\ UNCHANGED <<exists, tensor, appended, established, last, writer>>

ConcSelections ==
    {RangeSel(0, MaxSamples)}
    \cup {OffsetSel(o) : o \in Offsets}
    \cup {ListSel(<<1, 0>>)}

NextConc ==
    \/ create_tensor
    \/ \E dtype \in Dtypes, sshape \in SampleShapes, n \in 1..MaxBatch,
          batched \in BOOLEAN :
          WriterStart(dtype, sshape, n, batched)
    \/ WriteChunk
    \/ WriteEntry
    \/ WriteShape
    \/ WriteLength
    \/ \E r \in 1..NumReaders, sel \in ConcSelections, aslist \in BOOLEAN :
          ReadStart(r, sel, aslist)
    \/ \E r \in 1..NumReaders : ReadMeta(r)
    \/ \E r \in 1..NumReaders : ReadFetch(r)

SpecConc == Init /\ [][NextConc]_vars

(***************************************************************************)
(* Vocabulary of the properties.                                           *)
(***************************************************************************)
Ok == last.err.err = "none"
AfterAppend == last.op = "append" /\ Ok
AfterRead == last.op = "read" /\ tensor_exists(exists)

\* the samples of the batch of the last append
LastBatch ==
    Samples(normalize_and_batchify_array_shape(last.input, last.batched))

\* the samples a successful read has returned, in the order of the result
Returned ==
    IF last.kind = "list" THEN last.list
    ELSE IF ~subscriptable(last.sel) THEN <<last.arr>>
    ELSE Samples(last.arr)

\* the offsets of the selection among the samples appended, and the samples
\* at them
AppendedOffsets == indices(last.sel, Len(appended))
InAppended == \A j \in DOMAIN AppendedOffsets : AppendedOffsets[j] < Len(appended)
Expected == [j \in DOMAIN AppendedOffsets |-> appended[AppendedOffsets[j] + 1]]

\* the offsets of the selection among the index entries, and the entries
EntryOffsets == indices(last.sel, Len(tensor.entries))
InEntries == \A j \in DOMAIN EntryOffsets : EntryOffsets[j] < Len(tensor.entries)
Selected == [j \in DOMAIN EntryOffsets |-> tensor.entries[EntryOffsets[j] + 1]]

(***************************************************************************)
(* C1: after any sequence of successful appends on a freshly created       *)
(* tensor, zero-length-axis samples included, TensorMeta.length equals the *)
(* number of index entries and both equal the number of samples appended.  *)
(* The code adds no index entry for a sample with a zero in its shape.     *)
(***************************************************************************)
C1_LengthIsEntryCount ==
    tensor_exists(exists) =>
        /\ tensor.meta.length = Len(tensor.entries)
        /\ tensor.meta.length = Len(appended)

(***************************************************************************)
(* C2 as stated: create, append of one sample of any dtype and shape, read *)
(* of offset 0 returns an array of the same dtype, shape and values.       *)
(***************************************************************************)
C2_RoundTripAnyShape ==
    (AfterRead /\ last.sel = OffsetSel(0) /\ Len(appended) = 1) =>
        (Ok /\ last.kind = "array" /\ last.arr = appended[1])

(***************************************************************************)
(* C2 as amended: create, append of one sample whose shape has no          *)
(* zero-length axis, read of offset 0 (as_list true or false) returns an   *)
(* array of the same dtype, shape and values.                              *)
(***************************************************************************)
C2_RoundTrip ==
    (AfterRead /\ last.sel = OffsetSel(0) /\ Len(appended) = 1
       /\ ~ZeroIn(appended[1].shape)) =>
        (Ok /\ last.kind = "array" /\ last.arr = appended[1])

C2_Witness ==
    /\ AfterRead /\ last.sel = OffsetSel(0) /\ Len(appended) = 1 /\ Ok
    /\ last.arr.dtype = "int16" /\ last.arr.shape = <<1, 2>>
    /\ last.arr.data = <<258, 515>>

(***************************************************************************)
(* C3: a successful read returns, at position j, the sample appended at    *)
(* the j-th offset the selection resolves to; a full-range read returns    *)
(* all samples in the order of their appends.                              *)
(***************************************************************************)
C3_ReadInWriteOrder ==
    (AfterRead /\ Ok) => (InAppended /\ Returned = Expected)

(***************************************************************************)
(* C4: appending samples whose shape has a zero-length axis succeeds,      *)
(* appends one index entry per sample with that shape and empty            *)
(* chunk_refs, and leaves the chunk store and the cursor unchanged.        *)
(***************************************************************************)
C4_EmptySampleEntry ==
    (AfterAppend /\ ZeroIn(LastBatch[1].shape)) =>
        /\ tensor.entries =
               last.pre.entries
               \o [j \in DOMAIN LastBatch |->
                       [chunk_refs |-> <<>>, shape |-> LastBatch[j].shape]]
        /\ tensor.chunks = last.pre.chunks
        /\ tensor.cursor = last.pre.cursor

(***************************************************************************)
(* C5: a read, as_list true or false, whose selection includes the offset  *)
(* of an appended zero-length-axis sample fails with                       *)
(* UnsupportedEmptySample.                                                 *)
(***************************************************************************)
C5_EmptySampleReadFails ==
    (AfterRead /\ \E j \in DOMAIN AppendedOffsets :
                      /\ AppendedOffsets[j] < Len(appended)
                      /\ ZeroIn(appended[AppendedOffsets[j] + 1].shape)) =>
        last.err.err = "UnsupportedEmptySample"

(***************************************************************************)
(* C6: the dtype and the rank the first successful append has set are the  *)
(* same in every later state, also when the first sample has rank 0.       *)
(***************************************************************************)
C6_DtypeRankFixed ==
    (tensor_exists(exists) /\ established.set) =>
        /\ tensor.meta.dtype = established.dtype
        /\ Len(tensor.meta.min_shape) = established.rank
        /\ Len(tensor.meta.max_shape) = established.rank

(***************************************************************************)
(* C7: on a tensor with established dtype and rank, an append of another   *)
(* dtype fails with MetaMismatch carrying the expected and the actual      *)
(* dtype, and an append of the tensor's dtype and another rank fails with  *)
(* InvalidSampleShape carrying the expected and the actual rank.           *)
(***************************************************************************)
C7_CompatibilityGuards ==
    (last.op = "append" /\ tensor_exists(exists) /\ last.pre.meta.dtype # None) =>
        /\ last.input.dtype # last.pre.meta.dtype =>
               last.err = TensorMetaMismatchError(last.pre.meta.dtype,
                                                  last.input.dtype)
        /\ (/\ last.input.dtype = last.pre.meta.dtype
            /\ Len(LastBatch[1].shape) # Len(last.pre.meta.min_shape)) =>
               last.err = TensorInvalidSampleShapeError(
                              Len(last.pre.meta.min_shape),
                              Len(LastBatch[1].shape))

(***************************************************************************)
(* C8: after successful appends of N >= 1 samples of one rank R,           *)
(* min_shape and max_shape have length R and hold, per axis, the minimum   *)
(* and the maximum of that axis over all appended shapes, those with a     *)
(* zero-length axis included.                                              *)
(***************************************************************************)
AxisLengths(a) == {appended[k].shape[a] : k \in DOMAIN appended}
Least(S) == CHOOSE m \in S : \A x \in S : m <= x
Greatest(S) == CHOOSE m \in S : \A x \in S : m >= x

AllSame == \A i, j \in DOMAIN Selected : Selected[i].shape = Selected[j].shape
AllDecodable ==
    \A j \in DOMAIN Selected :
        Decodable(Selected[j], tensor.meta.dtype, tensor.chunks)
ShapesKept ==
    /\ Len(Returned) = Len(Selected)
    /\ \A j \in DOMAIN Selected : Returned[j].shape = Selected[j].shape

C12_CreateIffNoTensor ==
    [][last'.op = "create" =>
          IF exists.meta /\ exists.index
          THEN /\ last'.err = TensorAlreadyExistsError
               /\ exists' = exists
               /\ tensor' = tensor
          ELSE /\ last'.err = NoErr
               /\ exists'.meta /\ exists'.index
               /\ tensor'.meta.dtype = None
               /\ tensor'.meta.min_shape = <<>>
               /\ tensor'.meta.max_shape = <<>>
               /\ tensor'.meta.length = 0
               /\ tensor'.entries = <<>>]_vars

C12_Witness ==
    /\ last.op = "create" /\ last.err = TensorAlreadyExistsError
    /\ Len(tensor.entries) > 0

(***************************************************************************)
(* C13: an append rejected with MetaMismatch or InvalidSampleShape leaves  *)
(* the meta record, the index entries, the chunks and the cursor as they   *)
(* were before the call.                                                   *)
(***************************************************************************)
C13_RejectedAppendChangesNothing ==
    (last.op = "append" /\ last.err.err \in {"MetaMismatch", "InvalidSampleShape"})
        => tensor = last.pre

C13_Witness ==
    /\ last.op = "append" /\ last.err.err = "InvalidSampleShape"
    /\ last.batched /\ last.input.shape[1] = 2
    /\ Len(tensor.entries) = 1
    /\ tensor.cursor.used < tensor.meta.chunk_size

(***************************************************************************)
(* C14: on an existing tensor the index entries of a state are a prefix of *)
(* the index entries of the state any call leaves.                         *)
(***************************************************************************)
IsPrefix(s, t) == Len(s) <= Len(t) /\ SubSeq(t, 1, Len(s)) = s

C14_IndexAppendOnly ==
    [][(exists.meta /\ exists.index) =>
          IsPrefix(tensor.entries, tensor'.entries)]_vars

C14_Witness ==
    /\ AfterAppend
    /\ Len(last.pre.entries) = 1
    /\ Len(tensor.entries) = 3

(***************************************************************************)
(* C15: the byte ranges of every index entry add up to                     *)
(* product(shape) * itemsize(dtype) and, read in order, give the row-major *)
(* bytes of the sample the entry was written for.                          *)
(***************************************************************************)
RECURSIVE RefsLength(_)
RefsLength(refs) ==
    IF refs = <<>> THEN 0
    ELSE (Head(refs).end - Head(refs).start) + RefsLength(Tail(refs))

HasBytes(sample) == ~ZeroIn(sample.shape)

\* the samples appended that write_bytes was called for, in order
Written == SelectSeq(appended, HasBytes)

C15_EntryBytes ==
    /\ Len(tensor.entries) = Len(Written)
    /\ \A k \in DOMAIN tensor.entries :
          LET index_entry == tensor.entries[k]
          IN  /\ index_entry.shape = Written[k].shape
              /\ RefsLength(index_entry.chunk_refs)
                    = Prod(index_entry.shape) * Itemsize(tensor.meta.dtype)
              /\ read_refs(index_entry.chunk_refs, tensor.chunks)
                    = row_wise_to_bytes(Written[k])

(***************************************************************************)
(* C16: no chunk holds more than chunk_size bytes, no chunk is allocated   *)
(* without bytes to put in it, and every chunk but the one allocated last  *)
(* holds exactly chunk_size bytes.                                         *)
(***************************************************************************)
C16_ChunksPacked ==
    \A c \in DOMAIN tensor.chunks :
        /\ Len(tensor.chunks[c]) <= tensor.meta.chunk_size
        /\ Len(tensor.chunks[c]) > 0
        /\ c < Len(tensor.chunks) =>
              Len(tensor.chunks[c]) = tensor.meta.chunk_size

C16_Witness ==
    /\ AfterAppend
    /\ Len(tensor.chunks) = 2
    /\ Len(tensor.chunks[2]) < tensor.meta.chunk_size
    /\ \E k \in DOMAIN tensor.entries : Len(tensor.entries[k].chunk_refs) = 2
    /\ Len(last.pre.chunks) = 1
    /\ Len(last.pre.chunks[1]) < tensor.meta.chunk_size

(***************************************************************************)
(* C17: a step changes no chunk but the open one (the last allocated,      *)
(* below chunk_size), which it only extends; the other chunks stay as they *)
(* are, and no chunk is removed.                                           *)
(***************************************************************************)
C17_OnlyOpenChunkWritten ==
    [][/\ Len(tensor.chunks) <= Len(tensor'.chunks)
       /\ \A c \in DOMAIN tensor.chunks :
             /\ IsPrefix(tensor.chunks[c], tensor'.chunks[c])
             /\ (c < Len(tensor.chunks)
                 \/ Len(tensor.chunks[c]) >= tensor.meta.chunk_size)
                   => tensor'.chunks[c] = tensor.chunks[c]]_vars

C17_Witness ==
    /\ AfterAppend
    /\ Len(last.pre.chunks) = 2
    /\ Len(last.pre.chunks[2]) < Len(tensor.chunks[2])
    /\ \E k \in DOMAIN last.pre.entries :
          \E r \in DOMAIN last.pre.entries[k].chunk_refs :
              last.pre.entries[k].chunk_refs[r].id = 2

(***************************************************************************)
(* C18: when the store fails at sample j > 0 of a batch, the append fails  *)
(* with the store's error, the index holds the entries it had and, after   *)
(* them, those of the first j samples of the batch, length is what it was, *)
(* and the index holds more entries than length counts.                    *)
(***************************************************************************)
Interrupted == last.op = "append" /\ last.err = StoreError

C18_PartialBatchFailure ==
    (Interrupted /\ last.at > 0) =>
        /\ Len(tensor.entries) = Len(last.pre.entries) + last.at
        /\ IsPrefix(last.pre.entries, tensor.entries)
        /\ \A i \in 1..last.at :
              LET index_entry == tensor.entries[Len(last.pre.entries) + i]
              IN  /\ index_entry.shape = LastBatch[i].shape
                  /\ read_refs(index_entry.chunk_refs, tensor.chunks)
                        = row_wise_to_bytes(LastBatch[i])
        /\ tensor.meta.length = last.pre.meta.length
        /\ Len(tensor.entries) > tensor.meta.length

(***************************************************************************)
(* C19: a restart leaves length, dtype, envelope, index entries and cursor *)
(* as the append before it has left them, and the append that follows      *)
(* packs its first bytes into the open chunk, from the cursor's offset on, *)
(* allocating a chunk only for the bytes that do not fit.                  *)
(***************************************************************************)
LastBytes ==
    row_wise_to_bytes(normalize_and_batchify_array_shape(last.input, last.batched))

ReturnedBy(rd) ==
    IF rd.result.kind = "list" THEN rd.result.list
    ELSE IF ~subscriptable(rd.sel) THEN <<rd.result.arr>>
    ELSE Samples(rd.result.arr)

HasReturned(rd) == rd.pc = "done" /\ rd.result.err.err = "none"

C20_NoTornReads ==
    \A r \in 1..NumReaders :
        HasReturned(readers[r]) =>
            /\ Len(ReturnedBy(readers[r])) = Len(readers[r].offsets)
            /\ \A j \in DOMAIN readers[r].offsets :
                  /\ readers[r].offsets[j] < Len(appended)
                  /\ ReturnedBy(readers[r])[j]
                        = appended[readers[r].offsets[j] + 1]

====
